---- MODULE Spec2Model ----
(***************************************************************************)
(* Model of the JSON repair engine of src/json_fix.py.                     *)
(*                                                                         *)
(* A text is a sequence of one-character strings.  The repair stages       *)
(* (remove_trailing_commas, detect_unbalanced_brackets_with_report,        *)
(* fix_unbalanced_brackets, detect_missing_commas_with_report) and the     *)
(* library calls they rest on (str.splitlines, str.strip, str.join,        *)
(* re.sub, json.loads, json.dumps) are operators computed the way the      *)
(* Python code computes them.  json_linter_and_fixer is a state machine    *)
(* over a small file system.                                               *)
(***************************************************************************)
EXTENDS Integers, Sequences, FiniteSets, TLC

VARIABLES
    pc,                \* position of the run: "Reading", "Attempting", "Done"
    file_path,         \* argument of json_linter_and_fixer
    files,             \* the file system: a function from existing paths to texts
    content,           \* local `content`
    original_content,  \* local `original_content`
    attempt,           \* local `attempt`
    result,            \* the string the call returned ("" while running)
    reports,           \* findings of the last apply_fixes pass
    decodes,           \* source lines of the json.loads calls made by this run
    writes,            \* sequence of <<path, text>> written by this run
    prev,              \* summary of the previous run of the engine
    run,               \* number of the current run
    fnOp,              \* stage-function specification: function last applied
    fnArg,             \*   its argument
    fnRet              \*   its result

vars == <<pc, file_path, files, content, original_content, attempt, result,
          reports, decodes, writes, prev, run, fnOp, fnArg, fnRet>>

engineVars == <<pc, file_path, files, content, original_content, attempt,
                result, reports, decodes, writes, prev, run>>

fnVars == <<fnOp, fnArg, fnRet>>

-----------------------------------------------------------------------------
(* Characters *)

LBRACE == "{"
RBRACE == "}"
LBRACK == "["
RBRACK == "]"
COMMA  == ","
QUOTE  == "\""
COLON  == ":"
ONE    == "1"
SP     == " "
NL     == "\n"

\* The characters texts are built from.
Alphabet == {LBRACE, RBRACE, LBRACK, RBRACK, COMMA, QUOTE, COLON, ONE, SP, NL}

\* Longest text enumerated exhaustively for the stage functions.
MaxLen == 4

\* All texts over alphabet A of length at most n.
TextsUpTo(A, n) == UNION {[1..k -> A] : k \in 0..n}

-----------------------------------------------------------------------------
(* Python str primitives *)

\* str.isspace() of the characters of the alphabet (also the regex class \s).
IsSpace(c) == c \in {SP, NL}

\* str.splitlines(): lines are cut at each line terminator; no empty last line.
RECURSIVE splitlinesFrom(_, _, _)
splitlinesFrom(s, i, cur) ==
    IF i > Len(s) THEN (IF cur = <<>> THEN <<>> ELSE <<cur>>)
    ELSE IF s[i] = NL THEN <<cur>> \o splitlinesFrom(s, i + 1, <<>>)
    ELSE splitlinesFrom(s, i + 1, Append(cur, s[i]))

splitlines(s) == splitlinesFrom(s, 1, <<>>)

\* "\n".join(lines)
RECURSIVE join(_)
join(lines) ==
    IF lines = <<>> THEN <<>>
    ELSE IF Len(lines) = 1 THEN lines[1]
    ELSE lines[1] \o <<NL>> \o join(Tail(lines))

\* str.strip(): leading and trailing whitespace removed.
RECURSIVE lstrip(_)
lstrip(s) ==
    IF s # <<>> /\ IsSpace(s[1]) THEN lstrip(Tail(s)) ELSE s

RECURSIVE rstrip(_)
rstrip(s) ==
    IF s # <<>> /\ IsSpace(s[Len(s)]) THEN rstrip(SubSeq(s, 1, Len(s) - 1)) ELSE s

strip(s) == rstrip(lstrip(s))

\* str.endswith(c), str.startswith(c) for a one-character c.
endswith(s, c) == s # <<>> /\ s[Len(s)] = c
startswith(s, c) == s # <<>> /\ s[1] = c

\* str.count(c) for a one-character c.
count(s, c) == Cardinality({i \in 1..Len(s) : s[i] = c})

\* " " * n
Spaces(n) == [i \in 1..n |-> SP]

-----------------------------------------------------------------------------
(* Findings *)

ExtraClosing(c, line)   == [kind |-> "Extra closing bracket", char |-> c, line |-> line]
MissingClosing(c, line) == [kind |-> "Missing closing bracket", char |-> c, line |-> line]
MissingComma(line)      == [kind |-> "Missing comma", char |-> COMMA, line |-> line]

-----------------------------------------------------------------------------
(* detect_unbalanced_brackets_with_report *)

\* Lines 13-21 with the stack popped by a closer that does not match its top.
RECURSIVE scanBrackets_popping_mismatch(_, _, _, _, _)
scanBrackets_popping_mismatch(lines, i, j, stack, reps) ==
    IF i > Len(lines) THEN [stack |-> stack, reports |-> reps]
    ELSE IF j > Len(lines[i]) THEN scanBrackets_popping_mismatch(lines, i + 1, 1, stack, reps)
    ELSE LET char == lines[i][j] IN
         IF char \in {LBRACE, LBRACK}
         THEN scanBrackets_popping_mismatch(lines, i, j + 1, Append(stack, <<char, i>>), reps)
         ELSE IF char \in {RBRACE, RBRACK}
         THEN IF stack # <<>> /\ (  (stack[Len(stack)][1] = LBRACE /\ char = RBRACE)
                                 \/ (stack[Len(stack)][1] = LBRACK /\ char = RBRACK))
              THEN scanBrackets_popping_mismatch(lines, i, j + 1,
                                                 SubSeq(stack, 1, Len(stack) - 1), reps)
              ELSE scanBrackets_popping_mismatch(lines, i, j + 1,
                                                 SubSeq(stack, 1, Len(stack) - 1),
                                                 Append(reps, ExtraClosing(char, i)))
         ELSE scanBrackets_popping_mismatch(lines, i, j + 1, stack, reps)

\* The scan of lines 13-21: character j of line i, with the stack and the
\* reports so far; the result is the stack and the reports at end of input.
RECURSIVE scanBrackets(_, _, _, _, _)
scanBrackets(lines, i, j, stack, reps) ==
    IF i > Len(lines) THEN [stack |-> stack, reports |-> reps]
    ELSE IF j > Len(lines[i]) THEN scanBrackets(lines, i + 1, 1, stack, reps)
    ELSE LET char == lines[i][j] IN
         IF char \in {LBRACE, LBRACK}
         THEN scanBrackets(lines, i, j + 1, Append(stack, <<char, i>>), reps)
         ELSE IF char \in {RBRACE, RBRACK}
         THEN IF stack # <<>> /\ (  (stack[Len(stack)][1] = LBRACE /\ char = RBRACE)
                                 \/ (stack[Len(stack)][1] = LBRACK /\ char = RBRACK))
              THEN scanBrackets(lines, i, j + 1, SubSeq(stack, 1, Len(stack) - 1), reps)
              ELSE scanBrackets(lines, i, j + 1, stack, Append(reps, ExtraClosing(char, i)))
         ELSE scanBrackets(lines, i, j + 1, stack, reps)

\* The stack left when the scan of lines 13-21 ends.
scanStack(text) == scanBrackets(splitlines(text), 1, 1, <<>>, <<>>).stack

\* Lines 24-26: the stack is popped from its top, one finding per entry.
flushStack(stack) ==
    [k \in 1..Len(stack) |->
        MissingClosing(stack[Len(stack) + 1 - k][1], stack[Len(stack) + 1 - k][2])]

detect_unbalanced_brackets_with_report(text) ==
    LET r == scanBrackets(splitlines(text), 1, 1, <<>>, <<>>)
    IN  r.reports \o flushStack(r.stack)

-----------------------------------------------------------------------------
(* detect_missing_commas_with_report *)

\* Lines 40-42 with the test made on the lines as given, not stripped.
commaMissingAfter_unstripped(lines, i) ==
    /\ (endswith(lines[i], RBRACE) \/ endswith(lines[i], RBRACK))
    /\ (  startswith(lines[i + 1], QUOTE) \/ startswith(lines[i + 1], LBRACE)
       \/ startswith(lines[i + 1], LBRACK))

\* The condition of lines 40-42 on lines[i] and lines[i + 1].
commaMissingAfter(lines, i) ==
    LET current_line == strip(lines[i])
        next_line    == strip(lines[i + 1])
    IN  /\ (endswith(current_line, RBRACE) \/ endswith(current_line, RBRACK))
        /\ (  startswith(next_line, QUOTE) \/ startswith(next_line, LBRACE)
           \/ startswith(next_line, LBRACK))

\* The reports of lines 35-46, in line order.
RECURSIVE commaReports(_, _)
commaReports(lines, i) ==
    IF i > Len(lines) - 1 THEN <<>>
    ELSE (IF commaMissingAfter(lines, i) THEN <<MissingComma(i)>> ELSE <<>>)
         \o commaReports(lines, i + 1)

\* lines[-1] of an empty list raises IndexError (line 49).
detect_missing_commas_with_report(lines) ==
    IF lines = <<>>
    THEN [raised |-> "IndexError", lines |-> <<>>, reports |-> <<>>]
    ELSE [raised |-> "",
          lines  |-> [i \in 1..Len(lines) |->
                        IF i < Len(lines) /\ commaMissingAfter(lines, i)
                        THEN Append(lines[i], COMMA) ELSE lines[i]],
          reports |-> commaReports(lines, 1)]

-----------------------------------------------------------------------------
(* remove_trailing_commas *)

\* First position at or after i that holds no whitespace (Len(s) + 1 if none).
RECURSIVE skipSpace(_, _)
skipSpace(s, i) ==
    IF i <= Len(s) /\ IsSpace(s[i]) THEN skipSpace(s, i + 1) ELSE i

\* re.sub(r",\s*([\]}])", r"\1", s): leftmost non-overlapping matches, each
\* replaced by its closer.
RECURSIVE subTrailing(_, _)
subTrailing(s, i) ==
    IF i > Len(s) THEN <<>>
    ELSE LET j == skipSpace(s, i + 1) IN
         IF s[i] = COMMA /\ j <= Len(s) /\ s[j] \in {RBRACK, RBRACE}
         THEN <<s[j]>> \o subTrailing(s, j + 1)
         ELSE <<s[i]>> \o subTrailing(s, i + 1)

remove_trailing_commas(text) == subTrailing(text, 1)

-----------------------------------------------------------------------------
(* fix_unbalanced_brackets *)

\* Lines 62-66: the sum over the lines of count("{") - count("}").
\* Lines 63-66 counting "[" and "]" with the braces.
RECURSIVE openBraces_counting_brackets(_)
openBraces_counting_brackets(lines) ==
    IF lines = <<>> THEN 0
    ELSE count(lines[1], LBRACE) - count(lines[1], RBRACE)
         + count(lines[1], LBRACK) - count(lines[1], RBRACK)
         + openBraces_counting_brackets(Tail(lines))

RECURSIVE openBraces(_)
openBraces(lines) ==
    IF lines = <<>> THEN 0
    ELSE count(lines[1], LBRACE) - count(lines[1], RBRACE) + openBraces(Tail(lines))

\* Lines 69-71 with every closer indented by open_braces * 4.
closers_indented_by_depth(n) ==
    IF n > 0 THEN [k \in 1..n |-> Append(Spaces((n - k + 1) * 4), RBRACE)] ELSE <<>>

\* Lines 69-71: the closers appended while open_braces > 0.
closers(n) ==
    IF n > 0 THEN [k \in 1..n |-> Append(Spaces((n - k) * 4), RBRACE)] ELSE <<>>

\* s without its last n occurrences of "}".
RECURSIVE withoutLastBraces(_, _)
withoutLastBraces(s, n) ==
    IF n = 0 \/ s = <<>> THEN s
    ELSE IF s[Len(s)] = RBRACE THEN withoutLastBraces(SubSeq(s, 1, Len(s) - 1), n - 1)
    ELSE Append(withoutLastBraces(SubSeq(s, 1, Len(s) - 1), n), s[Len(s)])

\* Lines 56-73 with a negative open_braces repaired by dropping closers.
fix_unbalanced_brackets_dropping_closers(text) ==
    LET lines == splitlines(text)
        n     == openBraces(lines)
    IN  IF n < 0 THEN withoutLastBraces(join(lines), 0 - n)
        ELSE join(lines \o closers(n))

fix_unbalanced_brackets(text) ==
    LET lines == splitlines(text)
    IN  join(lines \o closers(openBraces(lines)))

-----------------------------------------------------------------------------
(* json.loads: the decoder of the standard library, on texts of the alphabet *)

\* A decoded value: t is "int", "str", "list" or "dict"; s holds the digits of
\* an int or the characters of a str; items holds the elements of a list, or
\* the [key, val] members of a dict in insertion order.
IntValue(digits) == [t |-> "int",  s |-> digits, items |-> <<>>]
StrValue(chars)  == [t |-> "str",  s |-> chars,  items |-> <<>>]
ListValue(items) == [t |-> "list", s |-> <<>>,   items |-> items]
DictValue(items) == [t |-> "dict", s |-> <<>>,   items |-> items]

\* A failed scan (JSONDecodeError or StopIteration).
ScanFail == [ok |-> FALSE, val |-> IntValue(<<>>), end |-> 0]
ScanOk(v, e) == [ok |-> TRUE, val |-> v, end |-> e]

\* WHITESPACE.match(s, i).end(): JSON whitespace of the alphabet is " " and "\n".
RECURSIVE skipWs(_, _)
skipWs(s, i) ==
    IF i <= Len(s) /\ s[i] \in {SP, NL} THEN skipWs(s, i + 1) ELSE i

\* NUMBER_RE: the end of the run of digits that starts at i.
RECURSIVE digitsEnd(_, _)
digitsEnd(s, i) ==
    IF i <= Len(s) /\ s[i] = ONE THEN digitsEnd(s, i + 1) ELSE i

\* scanstring (strict): the position of the closing quote of the string whose
\* first character is at i; 0 when the string is unterminated or holds a
\* control character.
RECURSIVE stringEnd(_, _)
stringEnd(s, i) ==
    IF i > Len(s) \/ s[i] = NL THEN 0
    ELSE IF s[i] = QUOTE THEN i
    ELSE stringEnd(s, i + 1)

\* dict(pairs): a repeated key keeps its first position and takes the last value.
dictOf(pairs) ==
    LET firsts == SelectSeq([i \in 1..Len(pairs) |-> i],
                      LAMBDA i : \A j \in 1..(i - 1) : pairs[j].key # pairs[i].key)
        last(k) == CHOOSE i \in 1..Len(pairs) :
                      /\ pairs[i].key = k
                      /\ \A j \in (i + 1)..Len(pairs) : pairs[j].key # k
    IN  [n \in 1..Len(firsts) |->
            [key |-> pairs[firsts[n]].key, val |-> pairs[last(pairs[firsts[n]].key)].val]]

RECURSIVE scan_once(_, _)
RECURSIVE parseArray(_, _, _)
RECURSIVE parseObject(_, _, _)

\* JSONArray, from the position of the next element.
parseArray(s, i, acc) ==
    LET v == scan_once(s, i) IN
    IF ~v.ok THEN ScanFail
    ELSE LET e == skipWs(s, v.end) IN
         IF e > Len(s) THEN ScanFail
         ELSE IF s[e] = RBRACK THEN ScanOk(ListValue(Append(acc, v.val)), e + 1)
         ELSE IF s[e] = COMMA THEN parseArray(s, skipWs(s, e + 1), Append(acc, v.val))
         ELSE ScanFail

\* JSONObject, from the position of the opening quote of the next key.
parseObject(s, i, acc) ==
    IF i > Len(s) \/ s[i] # QUOTE THEN ScanFail
    ELSE LET q == stringEnd(s, i + 1) IN
         IF q = 0 THEN ScanFail
         ELSE LET c == skipWs(s, q + 1) IN
              IF c > Len(s) \/ s[c] # COLON THEN ScanFail
              ELSE LET v == scan_once(s, skipWs(s, c + 1)) IN
                   IF ~v.ok THEN ScanFail
                   ELSE LET e == skipWs(s, v.end)
                            pairs == Append(acc, [key |-> SubSeq(s, i + 1, q - 1),
                                                  val |-> v.val])
                        IN  IF e > Len(s) THEN ScanFail
                            ELSE IF s[e] = RBRACE
                                 THEN ScanOk(DictValue(dictOf(pairs)), e + 1)
                            ELSE IF s[e] = COMMA
                                 THEN parseObject(s, skipWs(s, e + 1), pairs)
                            ELSE ScanFail

\* scanner.scan_once: the value that starts at position i.
scan_once(s, i) ==
    IF i > Len(s) THEN ScanFail
    ELSE IF s[i] = QUOTE
         THEN LET q == stringEnd(s, i + 1) IN
              IF q = 0 THEN ScanFail ELSE ScanOk(StrValue(SubSeq(s, i + 1, q - 1)), q + 1)
    ELSE IF s[i] = LBRACE
         THEN LET e == skipWs(s, i + 1) IN
              IF e <= Len(s) /\ s[e] = RBRACE THEN ScanOk(DictValue(<<>>), e + 1)
              ELSE parseObject(s, e, <<>>)
    ELSE IF s[i] = LBRACK
         THEN LET e == skipWs(s, i + 1) IN
              IF e <= Len(s) /\ s[e] = RBRACK THEN ScanOk(ListValue(<<>>), e + 1)
              ELSE parseArray(s, e, <<>>)
    ELSE IF s[i] = ONE THEN ScanOk(IntValue(SubSeq(s, i, digitsEnd(s, i) - 1)), digitsEnd(s, i))
    ELSE ScanFail

\* json.loads(text): ok is FALSE when it raises JSONDecodeError.
json_loads(text) ==
    LET v == scan_once(text, skipWs(text, 1)) IN
    IF v.ok /\ skipWs(text, v.end) = Len(text) + 1
    THEN [ok |-> TRUE, val |-> v.val]
    ELSE [ok |-> FALSE, val |-> ScanFail.val]

-----------------------------------------------------------------------------
(* json.dumps(data, indent=4) *)

\* The width of one indentation level.
Indent == 4

\* The pieces of a sequence of texts, each after the first preceded by sep.
RECURSIVE joinWith(_, _)
joinWith(parts, sep) ==
    IF parts = <<>> THEN <<>>
    ELSE IF Len(parts) = 1 THEN parts[1]
    ELSE parts[1] \o sep \o joinWith(Tail(parts), sep)

\* _iterencode at nesting level `level`.
RECURSIVE encode(_, _)
encode(v, level) ==
    LET newline_indent == <<NL>> \o Spaces(Indent * (level + 1))
        closing        == <<NL>> \o Spaces(Indent * level)
    IN  IF v.t = "int" THEN v.s
        ELSE IF v.t = "str" THEN <<QUOTE>> \o v.s \o <<QUOTE>>
        ELSE IF v.t = "list"
             THEN IF v.items = <<>> THEN <<LBRACK, RBRACK>>
                  ELSE <<LBRACK>> \o newline_indent
                       \o joinWith([k \in 1..Len(v.items) |-> encode(v.items[k], level + 1)],
                                   <<COMMA>> \o newline_indent)
                       \o closing \o <<RBRACK>>
        ELSE IF v.items = <<>> THEN <<LBRACE, RBRACE>>
             ELSE <<LBRACE>> \o newline_indent
                  \o joinWith([k \in 1..Len(v.items) |->
                                  <<QUOTE>> \o v.items[k].key \o <<QUOTE, COLON, SP>>
                                  \o encode(v.items[k].val, level + 1)],
                              <<COMMA>> \o newline_indent)
                  \o closing \o <<RBRACE>>

json_dumps(v) == encode(v, 0)

\* reformat_json: json.loads, then json.dumps(data, indent=4).
reformat_json(text) == json_dumps(json_loads(text).val)

-----------------------------------------------------------------------------
(* apply_fixes *)

\* One pass of the repair stages.  raised is "IndexError" when
\* detect_missing_commas_with_report raises, and then nothing is returned.
\* Lines 91-119 with the flag taken from the last stage alone.
apply_fixes_flag_of_last_stage(text) ==
    LET content_no_commas  == remove_trailing_commas(text)
        unbalanced_reports == detect_unbalanced_brackets_with_report(content_no_commas)
        content_balanced   == fix_unbalanced_brackets(content_no_commas)
        lines              == splitlines(content_balanced)
        commas             == detect_missing_commas_with_report(lines)
    IN  IF commas.raised # ""
        THEN [raised |-> commas.raised, content |-> text, fixed |-> FALSE,
              reports |-> <<>>]
        ELSE [raised  |-> "",
              content |-> join(commas.lines),
              fixed   |-> commas.lines # lines,
              reports |-> unbalanced_reports \o commas.reports]

\* Lines 91-119.
apply_fixes(text) ==
    LET content_no_commas  == remove_trailing_commas(text)
        unbalanced_reports == detect_unbalanced_brackets_with_report(content_no_commas)
        content_balanced   == fix_unbalanced_brackets(content_no_commas)
        lines              == splitlines(content_balanced)
        commas             == detect_missing_commas_with_report(lines)
    IN  IF commas.raised # ""
        THEN [raised |-> commas.raised, content |-> text, fixed |-> FALSE,
              reports |-> <<>>]
        ELSE [raised  |-> "",
              content |-> join(commas.lines),
              fixed   |-> \/ content_no_commas # text
                          \/ content_balanced # content_no_commas
                          \/ commas.lines # lines,
              reports |-> unbalanced_reports \o commas.reports]

-----------------------------------------------------------------------------
(* Paths and the strings json_linter_and_fixer returns *)

\* str.replace(old, new): every non-overlapping occurrence, from the left.
RECURSIVE replace(_, _, _)
replace(s, old, new) ==
    IF s = <<>> THEN <<>>
    ELSE IF Len(s) >= Len(old) /\ SubSeq(s, 1, Len(old)) = old
         THEN new \o replace(SubSeq(s, Len(old) + 1, Len(s)), old, new)
    ELSE <<s[1]>> \o replace(Tail(s), old, new)

DotJson          == <<".", "j", "s", "o", "n">>
CorrectedDotJson == <<"_", "c", "o", "r", "r", "e", "c", "t", "e", "d">> \o DotJson

\* Line 138.
corrected_path_of(path) == replace(path, DotJson, CorrectedDotJson)

AlreadyValid   == "No file saved; JSON is already valid and properly formatted."
NoFurtherFixes == "No further fixes were necessary."
FixSuccessful  == "Fix successful."
FileNotFound   == "File not found. Please provide a valid path."
NoProgress     == "An unexpected error occurred: No further fixes could be applied."
MaxAttempts    == "An unexpected error occurred: Reached maximum attempts to fix the JSON."
IndexErrorMsg  == "An unexpected error occurred: list index out of range"

\* Line 126 with the bound off by one.
max_attempts_off_by_one == 10 + 1

max_attempts == 10

-----------------------------------------------------------------------------
(* The inputs of the runs *)

\* Longest input text enumerated exhaustively.
MaxInputLen == 2

\* Longest run of commas in the inputs "[,,...,]".
MaxCommas == 11

\* Number of runs of the engine over one file system.
MaxRuns == 2

\* "[" , k commas, "]": each pass of apply_fixes removes one comma.
CommaRun(k) == <<LBRACK>> \o [i \in 1..k |-> COMMA] \o <<RBRACK>>

\* Well-formed documents, compact and in canonical form.
Documents ==
    { <<LBRACK, ONE, COMMA, ONE, RBRACK>>,
      <<LBRACE, QUOTE, QUOTE, COLON, ONE, RBRACE>>,
      <<LBRACE, QUOTE, ONE, QUOTE, COLON, SP, LBRACK, ONE, RBRACK, RBRACE>>,
      <<LBRACK, LBRACE, RBRACE, COMMA, NL, LBRACE, RBRACE, RBRACK>>,
      json_dumps(ListValue(<<IntValue(<<ONE>>)>>)),
      json_dumps(DictValue(<<[key |-> <<ONE>>, val |-> IntValue(<<ONE>>)]>>)),
      json_dumps(ListValue(<<DictValue(<<>>), ListValue(<<>>)>>)) }

\* A text with one character deleted, or one character of the alphabet inserted.
OneEdit(t) ==
    {SubSeq(t, 1, i - 1) \o SubSeq(t, i + 1, Len(t)) : i \in 1..Len(t)}
    \cup {SubSeq(t, 1, i) \o <<c>> \o SubSeq(t, i + 1, Len(t)) :
              i \in 0..Len(t), c \in Alphabet}

\* Scenarios A-D of the specification (with key "1" and value 1).
Scenarios ==
    { <<LBRACE, QUOTE, ONE, QUOTE, COLON, SP, ONE, SP,
        QUOTE, ONE, ONE, QUOTE, COLON, SP, ONE, RBRACE>>,
      <<LBRACE, QUOTE, ONE, QUOTE, COLON, SP, LBRACK, ONE, COMMA, SP, ONE, COMMA,
        RBRACK, RBRACE>>,
      <<LBRACE, QUOTE, ONE, QUOTE, COLON, SP, ONE>>,
      <<LBRACE, QUOTE, ONE, QUOTE, COLON, SP, ONE, RBRACE, RBRACE>> }

\* Objects whose only defect is a comma missing between two members of one
\* line, each with the object that has the comma.
SameLineMissingComma ==
    { << <<LBRACE, QUOTE, ONE, QUOTE, COLON, SP, ONE, SP,
           QUOTE, ONE, ONE, QUOTE, COLON, SP, ONE, RBRACE>>,
         <<LBRACE, QUOTE, ONE, QUOTE, COLON, SP, ONE, COMMA, SP,
           QUOTE, ONE, ONE, QUOTE, COLON, SP, ONE, RBRACE>> >>,
      << <<LBRACE, QUOTE, QUOTE, COLON, LBRACK, RBRACK, SP,
           QUOTE, ONE, QUOTE, COLON, LBRACE, RBRACE, RBRACE>>,
         <<LBRACE, QUOTE, QUOTE, COLON, LBRACK, RBRACK, COMMA, SP,
           QUOTE, ONE, QUOTE, COLON, LBRACE, RBRACE, RBRACE>> >> }

\* Most extra "}" put after a document.
MaxExtraClosers == 2

\* Documents that hold a brace, or a comma before a bracket, inside a string.
StringDocuments ==
    { <<QUOTE, LBRACE, QUOTE>>,
      <<LBRACK, QUOTE, COMMA, RBRACK, QUOTE, RBRACK>> }

\* A document followed by 1..MaxExtraClosers extra "}".
ExtraCloserTexts ==
    {d \o [i \in 1..k |-> RBRACE] :
        d \in Documents \cup StringDocuments, k \in 1..MaxExtraClosers}

InputTexts ==
    TextsUpTo(Alphabet, MaxInputLen)
    \cup {CommaRun(k) : k \in 0..MaxCommas}
    \cup Documents \cup UNION {OneEdit(d) : d \in Documents}
    \cup Scenarios
    \cup {c[1] : c \in SameLineMissingComma}
    \cup ExtraCloserTexts

\* The paths the engine is started on.
InputPaths ==
    { <<"a">> \o DotJson,
      <<"a">> \o DotJson \o DotJson,
      <<"a">> }

\* What an earlier session may have left at the derived path.
StaleTexts == { <<ONE>>, <<LBRACK, RBRACK>> }

NoRun == [file_path |-> <<>>, result |-> "", writes |-> <<>>]

-----------------------------------------------------------------------------
(* json_linter_and_fixer *)

\* The file system fs after open(path, "w").write(text).
written(fs, path, text) ==
    [p \in DOMAIN fs \cup {path} |-> IF p = path THEN text ELSE fs[p]]

Outcome(r, fs, ws) == [result |-> r, files |-> fs, writes |-> ws]

\* Lines 133-152 with the formatted text compared to the current text.
success_path_against_current(text, original, path, fs) ==
    LET formatted_content == reformat_json(text)
        corrected_path    == corrected_path_of(path)
    IN  IF formatted_content = text
        THEN Outcome(AlreadyValid, fs, <<>>)
        ELSE IF corrected_path \in DOMAIN fs /\ fs[corrected_path] = formatted_content
        THEN Outcome(NoFurtherFixes, fs, <<>>)
        ELSE Outcome(FixSuccessful, written(fs, corrected_path, formatted_content),
                     <<<<corrected_path, formatted_content>>>>)

\* Lines 133-152 without the comparison to the saved file.
success_path_always_saving(text, original, path, fs) ==
    LET formatted_content == reformat_json(text)
        corrected_path    == corrected_path_of(path)
    IN  IF formatted_content = original
        THEN Outcome(AlreadyValid, fs, <<>>)
        ELSE Outcome(FixSuccessful, written(fs, corrected_path, formatted_content),
                     <<<<corrected_path, formatted_content>>>>)

\* Lines 133-152 without the comparison to the original text.
success_path_without_noop(text, original, path, fs) ==
    LET formatted_content == reformat_json(text)
        corrected_path    == corrected_path_of(path)
    IN  IF corrected_path \in DOMAIN fs /\ fs[corrected_path] = formatted_content
        THEN Outcome(NoFurtherFixes, fs, <<>>)
        ELSE Outcome(FixSuccessful, written(fs, corrected_path, formatted_content),
                     <<<<corrected_path, formatted_content>>>>)

\* Lines 133-152 saving the repaired text as it is, not re-serialized.
success_path_saving_unformatted(text, original, path, fs) ==
    LET formatted_content == reformat_json(text)
        corrected_path    == corrected_path_of(path)
    IN  IF formatted_content = original
        THEN Outcome(AlreadyValid, fs, <<>>)
        ELSE IF corrected_path \in DOMAIN fs /\ fs[corrected_path] = formatted_content
        THEN Outcome(NoFurtherFixes, fs, <<>>)
        ELSE Outcome(FixSuccessful, written(fs, corrected_path, text),
                     <<<<corrected_path, text>>>>)

\* Lines 133-152: what the run returns, and what it writes, once `text` has
\* decoded.
success_path(text, original, path, fs) ==
    LET formatted_content == reformat_json(text)
        corrected_path    == corrected_path_of(path)
    IN  IF formatted_content = original
        THEN Outcome(AlreadyValid, fs, <<>>)
        ELSE IF corrected_path \in DOMAIN fs /\ fs[corrected_path] = formatted_content
        THEN Outcome(NoFurtherFixes, fs, <<>>)
        ELSE Outcome(FixSuccessful, written(fs, corrected_path, formatted_content),
                     <<<<corrected_path, formatted_content>>>>)

Retry(r, text, n, reps) ==
    [result |-> r, content |-> text, attempt |-> n, reports |-> reps]

\* Lines 154-159 without the test of `fixed`.
failure_path_ignoring_fixed(text, n, reps) ==
    LET fx == apply_fixes(text) IN
    IF fx.raised # "" THEN Retry(IndexErrorMsg, text, n, reps)
    ELSE Retry("", fx.content, n + 1, fx.reports)

\* Lines 154-159: the pass of apply_fixes after a JSONDecodeError; result is
\* "" when the loop goes on.  The ValueError of line 158 and the IndexError of
\* line 49 are caught at line 164.
failure_path(text, n, reps) ==
    LET fx == apply_fixes(text) IN
    IF fx.raised # "" THEN Retry(IndexErrorMsg, text, n, reps)
    ELSE IF ~fx.fixed THEN Retry(NoProgress, fx.content, n, fx.reports)
    ELSE Retry("", fx.content, n + 1, fx.reports)

Init ==
    /\ pc = "Reading"
    /\ file_path \in InputPaths
    /\ \E input \in SUBSET {file_path}, saved \in SUBSET {corrected_path_of(file_path)} :
          \E t \in InputTexts, old \in StaleTexts :
             files = [p \in input \cup saved |-> IF p \in input THEN t ELSE old]
    /\ content = <<>>
    /\ original_content = <<>>
    /\ attempt = 0
    /\ result = ""
    /\ reports = <<>>
    /\ decodes = <<>>
    /\ writes = <<>>
    /\ prev = NoRun
    /\ run = 1
    /\ fnOp = "none"
    /\ fnArg = <<>>
    /\ fnRet = <<>>

\* Lines 122-127: the file is read; FileNotFoundError is caught at line 162.
Read ==
    /\ pc = "Reading"
    /\ IF file_path \in DOMAIN files
       THEN /\ content' = files[file_path]
            /\ original_content' = files[file_path]
            /\ attempt' = 0
            /\ pc' = "Attempting"
            /\ UNCHANGED result
       ELSE /\ pc' = "Done"
            /\ result' = FileNotFound
            /\ UNCHANGED <<content, original_content, attempt>>
    /\ UNCHANGED <<file_path, files, reports, decodes, writes, prev, run, fnVars>>

\* Lines 129-152: an iteration whose json.loads (line 132) succeeds;
\* reformat_json decodes the text once more (line 78).
AttemptDecoded ==
    /\ pc = "Attempting"
    /\ attempt < max_attempts
    /\ json_loads(content).ok
    /\ decodes' = decodes \o <<132, 78>>
    /\ LET out == success_path(content, original_content, file_path, files) IN
          /\ pc' = "Done"
          /\ result' = out.result
          /\ files' = out.files
          /\ writes' = writes \o out.writes
    /\ UNCHANGED <<file_path, content, original_content, attempt, reports, prev,
                   run, fnVars>>

\* Lines 129-132 and 153-159: an iteration whose json.loads raises
\* JSONDecodeError.
AttemptFailed ==
    /\ pc = "Attempting"
    /\ attempt < max_attempts
    /\ ~json_loads(content).ok
    /\ decodes' = Append(decodes, 132)
    /\ LET out == failure_path(content, attempt, reports) IN
          /\ pc' = IF out.result = "" THEN "Attempting" ELSE "Done"
          /\ result' = out.result
          /\ content' = out.content
          /\ attempt' = out.attempt
          /\ reports' = out.reports
    /\ UNCHANGED <<file_path, files, original_content, writes, prev, run, fnVars>>

\* Lines 129 and 161: the loop ends and ValueError is raised, caught at line 164.
AttemptsExhausted ==
    /\ pc = "Attempting"
    /\ attempt >= max_attempts
    /\ pc' = "Done"
    /\ result' = MaxAttempts
    /\ UNCHANGED <<file_path, files, content, original_content, attempt, reports,
                   decodes, writes, prev, run, fnVars>>

\* Lines 169-170: the engine is called again, on the same path or on the path
\* of the corrected file, over the file system the last run left.
Rerun ==
    /\ pc = "Done"
    /\ run < MaxRuns
    /\ \E path \in {file_path, corrected_path_of(file_path)} :
          file_path' = path
    /\ prev' = [file_path |-> file_path, result |-> result, writes |-> writes]
    /\ run' = run + 1
    /\ pc' = "Reading"
    /\ content' = <<>>
    /\ original_content' = <<>>
    /\ attempt' = 0
    /\ result' = ""
    /\ reports' = <<>>
    /\ decodes' = <<>>
    /\ writes' = <<>>
    /\ UNCHANGED <<files, fnVars>>

Next ==
    \/ Read
    \/ AttemptDecoded
    \/ AttemptFailed
    \/ AttemptsExhausted
    \/ Rerun

Spec == Init /\ [][Next]_vars

-----------------------------------------------------------------------------
(* The repair stages applied to every text of the alphabet up to MaxLen *)

FnInit ==
    /\ fnOp = "none"
    /\ fnArg \in TextsUpTo(Alphabet, MaxLen)
    /\ fnRet = <<>>
    /\ pc = "Idle"
    /\ file_path = <<>>
    /\ files = <<>>
    /\ content = <<>>
    /\ original_content = <<>>
    /\ attempt = 0
    /\ result = ""
    /\ reports = <<>>
    /\ decodes = <<>>
    /\ writes = <<>>
    /\ prev = NoRun
    /\ run = 0

CallRemoveTrailingCommas ==
    /\ fnOp = "none"
    /\ fnOp' = "remove_trailing_commas"
    /\ fnRet' = remove_trailing_commas(fnArg)
    /\ UNCHANGED <<fnArg, engineVars>>

CallDetectUnbalancedBrackets ==
    /\ fnOp = "none"
    /\ fnOp' = "detect_unbalanced_brackets_with_report"
    /\ fnRet' = detect_unbalanced_brackets_with_report(fnArg)
    /\ UNCHANGED <<fnArg, engineVars>>

CallFixUnbalancedBrackets ==
    /\ fnOp = "none"
    /\ fnOp' = "fix_unbalanced_brackets"
    /\ fnRet' = fix_unbalanced_brackets(fnArg)
    /\ UNCHANGED <<fnArg, engineVars>>

\* The lines given to the stage are those of the text, as in line 112.
CallDetectMissingCommas ==
    /\ fnOp = "none"
    /\ fnOp' = "detect_missing_commas_with_report"
    /\ fnRet' = detect_missing_commas_with_report(splitlines(fnArg))
    /\ UNCHANGED <<fnArg, engineVars>>

\* One pass of lines 91-119 over the text.
CallApplyFixes ==
    /\ fnOp = "none"
    /\ fnOp' = "apply_fixes"
    /\ fnRet' = apply_fixes(fnArg)
    /\ UNCHANGED <<fnArg, engineVars>>

FnNext ==
    \/ CallRemoveTrailingCommas
    \/ CallDetectUnbalancedBrackets
    \/ CallFixUnbalancedBrackets
    \/ CallDetectMissingCommas
    \/ CallApplyFixes

FnSpec == FnInit /\ [][FnNext]_vars

-----------------------------------------------------------------------------
(* Properties of the repair loop, checked under Spec *)

\* The number of loop iterations that called json.loads (line 132).
LoopAttempts == Cardinality({i \in 1..Len(decodes) : decodes[i] = 132})

\* C1, as stated: in every run the decode primitive json.loads is called at
\* most 10 times in total.
C1_DecodesAtMostTen == Len(decodes) <= 10

\* C1, amended: the loop attempts to decode at most 10 times; an attempt that
\* succeeds decodes the same text once more in reformat_json, so json.loads is
\* called at most 11 times in a run; a run whose 10th attempt failed and whose
\* pass of apply_fixes changed the text returns the "Reached maximum attempts"
\* failure in its next step, without another call of json.loads.
C1_AttemptBound ==
    /\ [](/\ LoopAttempts <= 10
          /\ Len(decodes) <= 11
          /\ Len(decodes) = 11 => decodes[11] = 78
          /\ result = MaxAttempts => (attempt = 10 /\ LoopAttempts = 10))
    /\ [][(pc = "Attempting" /\ attempt = 10)
             => (pc' = "Done" /\ result' = MaxAttempts /\ decodes' = decodes
                 /\ files' = files)]_vars

\* C1 witness: a run that failed to decode 10 times, was repaired 10 times, and
\* gave up at the bound.
C1_Witness ==
    /\ pc = "Done"
    /\ result = MaxAttempts
    /\ LoopAttempts = 10
    /\ \A i \in 1..Len(decodes) : decodes[i] = 132

\* C2: after a failed decode one pass of apply_fixes runs; when it reports
\* fixed = False the run returns "No further fixes could be applied" with no
\* other decode and no write, and when it reports fixed = True the loop goes
\* back to Attempting with the text that pass returned; a run that has
\* returned takes no further step.
C2_OnePassPerFailure ==
    /\ [][(/\ pc = "Attempting"
           /\ attempt < 10
           /\ ~json_loads(content).ok
           /\ apply_fixes(content).raised = "")
             => /\ decodes' = Append(decodes, 132)
                /\ files' = files
                /\ writes' = writes
                /\ content' = apply_fixes(content).content
                /\ IF apply_fixes(content).fixed
                   THEN pc' = "Attempting" /\ result' = "" /\ attempt' = attempt + 1
                   ELSE pc' = "Done" /\ result' = NoProgress /\ attempt' = attempt]_vars
    /\ [][pc = "Done" => (pc' = "Reading" /\ run' = run + 1 /\ files' = files)]_vars

\* C2 witness: a run that went back to Attempting after a pass that fixed
\* something and ended when the next pass fixed nothing.
C2_Witness ==
    /\ pc = "Done"
    /\ result = NoProgress
    /\ attempt >= 1
    /\ writes = <<>>

\* C3: every run, whatever the input text, returns one of the outcomes
\* success, already valid, no further changes, no progress, attempt bound
\* exceeded, or I/O failure.
C3_OutcomeIsListed ==
    pc = "Done" =>
        result \in {FixSuccessful, AlreadyValid, NoFurtherFixes, NoProgress,
                    MaxAttempts, FileNotFound}

\* C4: a run returns "already valid" exactly when the first loaded text decodes
\* and json.dumps(..., indent=4) of it is that same text, and such a run writes
\* no file; the canonical form of a repaired text is never taken for a no-op.
C4_AlreadyValidNoWrite ==
    pc = "Done" /\ result # FileNotFound =>
        /\ (json_loads(original_content).ok
              /\ reformat_json(original_content) = original_content)
           <=> result = AlreadyValid
        /\ result = AlreadyValid => (writes = <<>> /\ attempt = 0)

\* C4 witness: a document of several lines in canonical form was found valid.
C4_Witness ==
    /\ pc = "Done"
    /\ result = AlreadyValid
    /\ Len(splitlines(original_content)) >= 3
    /\ writes = <<>>

\* C5: when the text decodes and its canonical form differs from the first
\* loaded text, the run returns "No further fixes were necessary" and writes
\* nothing if the file at the derived path holds that canonical form, and
\* otherwise writes the canonical form to the derived path, leaves every other
\* file alone, and returns "Fix successful".
C5_SaveUnlessSaved ==
    [][(/\ pc = "Attempting"
        /\ attempt < 10
        /\ json_loads(content).ok
        /\ reformat_json(content) # original_content)
          => LET corrected_path == corrected_path_of(file_path) IN
             /\ pc' = "Done"
             /\ IF /\ corrected_path \in DOMAIN files
                   /\ files[corrected_path] = reformat_json(content)
                THEN /\ result' = NoFurtherFixes
                     /\ files' = files
                     /\ writes' = writes
                ELSE /\ result' = FixSuccessful
                     /\ DOMAIN files' = DOMAIN files \cup {corrected_path}
                     /\ files'[corrected_path] = reformat_json(content)
                     /\ \A p \in DOMAIN files : p # corrected_path => files'[p] = files[p]
                     /\ writes' = <<<<corrected_path, reformat_json(content)>>>>]_vars

\* C5 witness: a second run over the same input found the file the first run
\* had saved and wrote nothing.
C5_Witness ==
    /\ pc = "Done"
    /\ result = NoFurtherFixes
    /\ prev.result = FixSuccessful
    /\ file_path = prev.file_path
    /\ writes = <<>>

\* The last run saved a corrected file and this run was started on that file.
FedBack ==
    /\ run >= 2
    /\ prev.result = FixSuccessful
    /\ file_path = prev.writes[1][1]

\* C6, as stated: a run on the corrected output of a successful run (a file
\* other than that run's input) returns "no further changes" and writes
\* nothing.
C6_FedBackNoFurtherChanges ==
    (pc = "Done" /\ FedBack /\ file_path # prev.file_path)
        => (result = NoFurtherFixes /\ writes = <<>>)

\* C6, amended: a run on the corrected output of a successful run returns
\* "already valid" (the canonical form is its own canonical form) and writes
\* nothing.
C6_FedBackAlreadyValid ==
    (pc = "Done" /\ FedBack) => (result = AlreadyValid /\ writes = <<>>)

\* C6 witness: the corrected output of a repaired document was fed back.
C6_Witness ==
    /\ pc = "Done"
    /\ FedBack
    /\ file_path # prev.file_path
    /\ result = AlreadyValid
    /\ Len(original_content) > 2

-----------------------------------------------------------------------------
(* Properties of the repair stages, checked under FnSpec *)

\* count("{") - count("}") over the whole text.
NetDepth(text) == count(text, LBRACE) - count(text, RBRACE)

\* The number of "{" the scanner leaves unmatched at the end of the text.
UnmatchedOpenBraces(text) ==
    Cardinality({k \in 1..Len(scanStack(text)) : scanStack(text)[k][1] = LBRACE})

\* out is the lines of text followed by n lines, the k-th made of 4 * (n - k)
\* spaces and one "}".
AppendsClosers(text, out, n) ==
    LET before == splitlines(text)
        after  == splitlines(out)
    IN  /\ Len(after) = Len(before) + n
        /\ SubSeq(after, 1, Len(before)) = before
        /\ \A k \in 1..n :
              /\ Len(after[Len(before) + k]) = 4 * (n - k) + 1
              /\ \A j \in 1..(4 * (n - k)) : after[Len(before) + k][j] = SP
              /\ after[Len(before) + k][4 * (n - k) + 1] = RBRACE

\* C7, as stated: for a text with N >= 1 unmatched "{", fix_unbalanced_brackets
\* returns the lines of the text followed by N closers indented by 4 * (N - 1),
\* ..., 0 spaces.
C7_ClosersPerUnmatchedBrace ==
    (fnOp = "fix_unbalanced_brackets" /\ UnmatchedOpenBraces(fnArg) >= 1)
        => AppendsClosers(fnArg, fnRet, UnmatchedOpenBraces(fnArg))

\* C7, amended: for a text whose net brace depth N = count("{") - count("}")
\* is at least 1, fix_unbalanced_brackets returns the lines of the text
\* followed by N closers indented by 4 * (N - 1), ..., 0 spaces.
C7_ClosersPerNetDepth ==
    (fnOp = "fix_unbalanced_brackets" /\ NetDepth(fnArg) >= 1)
        => AppendsClosers(fnArg, fnRet, NetDepth(fnArg))

\* C7 witness: a text of two lines with two open braces was closed.
C7_Witness ==
    /\ fnOp = "fix_unbalanced_brackets"
    /\ NetDepth(fnArg) = 2
    /\ Len(splitlines(fnArg)) = 2
    /\ Len(splitlines(fnRet)) = 4

\* C8: for a text whose net brace depth is <= 0, fix_unbalanced_brackets
\* returns the text itself, character for character.
C8_UnchangedAtDepthZero ==
    (fnOp = "fix_unbalanced_brackets" /\ NetDepth(fnArg) <= 0) => fnRet = fnArg

\* C9: remove_trailing_commas applied to its own result returns that result,
\* and its result holds no comma followed, after optional whitespace, by "]"
\* or "}".
C9_StripperIdempotent ==
    fnOp = "remove_trailing_commas" =>
        /\ remove_trailing_commas(fnRet) = fnRet
        /\ \A i \in 1..Len(fnRet) :
              fnRet[i] = COMMA =>
                 ~(/\ skipSpace(fnRet, i + 1) <= Len(fnRet)
                   /\ fnRet[skipSpace(fnRet, i + 1)] \in {RBRACK, RBRACE})

\* C10: detect_missing_commas_with_report returns as many lines as it was
\* given, for every sequence of lines, the empty sequence included.
C10_SameNumberOfLines ==
    fnOp = "detect_missing_commas_with_report" =>
        /\ fnRet.raised = ""
        /\ Len(fnRet.lines) = Len(splitlines(fnArg))

\* The characters of a line that are not whitespace, in order.
NonSpace(line) == SelectSeq(line, LAMBDA c : ~IsSpace(c))

\* Line i of lines is followed by a line, its last character that is not
\* whitespace is "}" or "]", and the first such character of line i + 1 is a
\* quote, "{" or "[".
NeedsComma(lines, i) ==
    /\ i < Len(lines)
    /\ NonSpace(lines[i]) # <<>>
    /\ NonSpace(lines[i + 1]) # <<>>
    /\ NonSpace(lines[i])[Len(NonSpace(lines[i]))] \in {RBRACE, RBRACK}
    /\ NonSpace(lines[i + 1])[1] \in {QUOTE, LBRACE, LBRACK}

\* C11: for a sequence of at least one line, line i of the result of
\* detect_missing_commas_with_report is line i of the input followed by ","
\* exactly when the trimmed line i ends with "}" or "]" and the trimmed line
\* i + 1 begins with a quote, "{" or "["; every other line, the last one
\* always, is the input line; the findings are one "Missing comma" per
\* insertion, citing the 1-based number of line i, in line order.
C11_CommaPerPair ==
    (fnOp = "detect_missing_commas_with_report" /\ splitlines(fnArg) # <<>>) =>
        LET lines    == splitlines(fnArg)
            inserted == {i \in 1..Len(lines) : NeedsComma(lines, i)}
        IN  /\ fnRet.raised = ""
            /\ Len(fnRet.lines) = Len(lines)
            /\ \A i \in 1..Len(lines) :
                  fnRet.lines[i] = IF i \in inserted THEN lines[i] \o <<COMMA>>
                                                    ELSE lines[i]
            /\ fnRet.lines[Len(lines)] = lines[Len(lines)]
            /\ Len(fnRet.reports) = Cardinality(inserted)
            /\ \A k \in 1..Len(fnRet.reports) :
                  /\ fnRet.reports[k].kind = "Missing comma"
                  /\ fnRet.reports[k].line \in inserted
                  /\ k > 1 => fnRet.reports[k - 1].line < fnRet.reports[k].line

\* C11 witness: a comma was put after the whitespace that ends a line.
C11_Witness ==
    /\ fnOp = "detect_missing_commas_with_report"
    /\ fnRet.raised = ""
    /\ Len(fnRet.reports) = 1
    /\ fnRet.reports[1].line = 1
    /\ endswith(splitlines(fnArg)[1], SP)
    /\ endswith(fnRet.lines[1], COMMA)

\* The 1-based line of position p of a text: one more than the line
\* terminators before p.
LineOf(text, p) == 1 + Cardinality({q \in 1..(p - 1) : text[q] = NL})

\* The scan as the claim words it, over the characters of the text from
\* position p: an opener is pushed with its line, a closer that matches the
\* top pops it, any other closer adds an "Extra closing bracket" finding and
\* leaves the stack as it is.
RECURSIVE ScanAsStated(_, _, _, _)
ScanAsStated(text, p, stack, found) ==
    IF p > Len(text) THEN [stack |-> stack, found |-> found]
    ELSE IF text[p] \in {LBRACE, LBRACK}
         THEN ScanAsStated(text, p + 1, Append(stack, <<text[p], LineOf(text, p)>>), found)
    ELSE IF text[p] \in {RBRACE, RBRACK}
         THEN IF /\ stack # <<>>
                 /\ stack[Len(stack)][1] = (IF text[p] = RBRACE THEN LBRACE ELSE LBRACK)
              THEN ScanAsStated(text, p + 1, SubSeq(stack, 1, Len(stack) - 1), found)
              ELSE ScanAsStated(text, p + 1, stack,
                                Append(found, [kind |-> "Extra closing bracket",
                                               char |-> text[p],
                                               line |-> LineOf(text, p)]))
    ELSE ScanAsStated(text, p + 1, stack, found)

\* The brackets and braces of a text, in order.
BracketsOf(text) == SelectSeq(text, LAMBDA c : c \in {LBRACE, RBRACE, LBRACK, RBRACK})

\* A sequence of brackets with every adjacent pair "{}" or "[]" taken out,
\* again and again.
RECURSIVE Cancelled(_)
Cancelled(b) ==
    LET pairs == {i \in 1..(Len(b) - 1) :
                     \/ (b[i] = LBRACE /\ b[i + 1] = RBRACE)
                     \/ (b[i] = LBRACK /\ b[i + 1] = RBRACK)}
    IN  IF pairs = {} THEN b
        ELSE LET i == CHOOSE i \in pairs : \A j \in pairs : i <= j
             IN  Cancelled(SubSeq(b, 1, i - 1) \o SubSeq(b, i + 2, Len(b)))

\* The brackets of the text are properly nested.
ProperlyNested(text) == Cancelled(BracketsOf(text)) = <<>>

\* C12: the findings of detect_unbalanced_brackets_with_report are those of
\* the scan as stated, followed by one "Missing closing bracket" finding per
\* entry left on the stack, last pushed first, with the line it was opened
\* on; the stack holds only "{" and "[" entries; for a properly nested text the
\* stack ends empty and there is no finding.
C12_ScannerFindings ==
    fnOp = "detect_unbalanced_brackets_with_report" =>
        LET r == ScanAsStated(fnArg, 1, <<>>, <<>>)
            n == Len(r.stack)
        IN  /\ scanStack(fnArg) = r.stack
            /\ \A k \in 1..Len(scanStack(fnArg)) :
                  scanStack(fnArg)[k][1] \in {LBRACE, LBRACK}
            /\ Len(fnRet) = Len(r.found) + n
            /\ SubSeq(fnRet, 1, Len(r.found)) = r.found
            /\ \A k \in 1..n :
                  fnRet[Len(r.found) + k] =
                     [kind |-> "Missing closing bracket",
                      char |-> r.stack[n + 1 - k][1],
                      line |-> r.stack[n + 1 - k][2]]
            /\ ProperlyNested(fnArg) => (fnRet = <<>> /\ scanStack(fnArg) = <<>>)

\* C12 witness: a closer that does not match the top was reported and left the
\* stack alone, and the two openers were then reported last opened first.
C12_Witness ==
    /\ fnOp = "detect_unbalanced_brackets_with_report"
    /\ Len(fnRet) = 3
    /\ fnRet[1].kind = "Extra closing bracket"
    /\ fnRet[2] = [kind |-> "Missing closing bracket", char |-> LBRACK, line |-> 2]
    /\ fnRet[3] = [kind |-> "Missing closing bracket", char |-> LBRACE, line |-> 1]

-----------------------------------------------------------------------------
(* Scenarios of the repair loop, checked under Spec *)

\* C13: a run on an object whose only defect is a comma missing between two
\* members of one line ends in success, and the file at the derived path holds
\* the canonical form of the object with the comma.
C13_SameLineCommaRepaired ==
    \A c \in SameLineMissingComma :
        (pc = "Done" /\ original_content = c[1]) =>
            /\ result \in {FixSuccessful, NoFurtherFixes}
            /\ corrected_path_of(file_path) \in DOMAIN files
            /\ files[corrected_path_of(file_path)] = reformat_json(c[2])

\* Position p of the text lies inside a string literal: it is no quote and an
\* odd number of quotes come before it.
InsideString(text, p) ==
    /\ text[p] # QUOTE
    /\ Cardinality({q \in 1..(p - 1) : text[q] = QUOTE}) % 2 = 1

\* No string literal of the text holds a bracket or a brace.
NoBracketInStrings(text) ==
    \A p \in 1..Len(text) :
        text[p] \in {LBRACE, RBRACE, LBRACK, RBRACK} => ~InsideString(text, p)

\* The text is a document that decodes, followed by k extra "}".
DocumentPlusClosers(text, k) ==
    /\ k \in 1..(Len(text) - 1)
    /\ \A p \in (Len(text) - k + 1)..Len(text) : text[p] = RBRACE
    /\ json_loads(SubSeq(text, 1, Len(text) - k)).ok

\* The run made no progress on a document followed by k extra "}": the first
\* pass reported k extra "}", changed nothing, and the run returned
\* "No further fixes could be applied" without a write.
NoProgressOnClosers(k) ==
    /\ result = NoProgress
    /\ attempt = 0
    /\ content = original_content
    /\ writes = <<>>
    /\ Cardinality({i \in 1..Len(reports) :
                       /\ reports[i].kind = "Extra closing bracket"
                       /\ reports[i].char = RBRACE}) = k

\* C14, as stated: a run on a valid document followed by one or more extra
\* "}" reports an extra closing bracket for each of them, removes none, makes
\* no progress and ends in the no-progress failure without a write.
C14_ExtraClosersNoProgress ==
    \A k \in 1..Len(original_content) :
        (pc = "Done" /\ DocumentPlusClosers(original_content, k))
            => NoProgressOnClosers(k)

\* C14, amended: the same, for a valid document none of whose string literals
\* holds a bracket or a brace.
C14_ExtraClosersOutsideStrings ==
    \A k \in 1..Len(original_content) :
        (/\ pc = "Done"
         /\ DocumentPlusClosers(original_content, k)
         /\ NoBracketInStrings(original_content))
            => NoProgressOnClosers(k)

\* C14 witness: a document of several lines followed by two extra "}".
C14_Witness ==
    /\ pc = "Done"
    /\ DocumentPlusClosers(original_content, 2)
    /\ NoBracketInStrings(original_content)
    /\ Len(splitlines(original_content)) >= 3
    /\ NoProgressOnClosers(2)

\* s with only its first occurrence of old replaced by new.
RECURSIVE replaceFirst(_, _, _)
replaceFirst(s, old, new) ==
    IF s = <<>> THEN <<>>
    ELSE IF Len(s) >= Len(old) /\ SubSeq(s, 1, Len(old)) = old
         THEN new \o SubSeq(s, Len(old) + 1, Len(s))
    ELSE <<s[1]>> \o replaceFirst(Tail(s), old, new)

\* C15, as stated: the path a run saves to is the input path with only its
\* first ".json" replaced by "_corrected.json", and it is not the input path.
C15_FirstOccurrenceSibling ==
    (pc = "Done" /\ result = FixSuccessful) =>
        LET target == writes[Len(writes)][1] IN
            /\ target = replaceFirst(file_path, DotJson, CorrectedDotJson)
            /\ target # file_path

-----------------------------------------------------------------------------
(* The stripper's frame and the pass as a whole, checked under FnSpec *)

\* The commas of the text whose next character that is no whitespace is "]"
\* or "}".
TrailingCommas(text) ==
    {p \in 1..Len(text) :
        /\ text[p] = COMMA
        /\ \E q \in (p + 1)..Len(text) :
              /\ text[q] \in {RBRACK, RBRACE}
              /\ \A r \in (p + 1)..(q - 1) : IsSpace(text[r])}

\* The text from position p on, without the positions in D.
RECURSIVE deleteAt(_, _, _)
deleteAt(text, D, p) ==
    IF p > Len(text) THEN <<>>
    ELSE (IF p \in D THEN <<>> ELSE <<text[p]>>) \o deleteAt(text, D, p + 1)

\* C16, as stated: the stripper's output is its input with some commas that
\* stand before a closer deleted, and every other character kept in order,
\* the whitespace between such a comma and its closer included.
C16_OnlyTrailingCommasDeleted ==
    fnOp = "remove_trailing_commas" =>
        \E D \in SUBSET TrailingCommas(fnArg) : fnRet = deleteAt(fnArg, D, 1)

\* C17: a pass that returns gives the output of the stripper, then Bracket
\* Repair, then Comma Repair, each on the output of the stage before, with the
\* Scanner's findings on the stripped text before those of Comma Repair; and
\* its flag is set exactly when the text it returns differs from the text it
\* was given.
C17_StagesInOrderAndFlag ==
    (fnOp = "apply_fixes" /\ fnRet.raised = "") =>
        LET stripped == remove_trailing_commas(fnArg)
            balanced == fix_unbalanced_brackets(stripped)
            commas   == detect_missing_commas_with_report(splitlines(balanced))
        IN  /\ fnRet.content = join(commas.lines)
            /\ fnRet.reports =
                   detect_unbalanced_brackets_with_report(stripped) \o commas.reports
            /\ fnRet.fixed <=> (fnRet.content # fnArg)

\* C17 witness: a pass in which the stripper and Comma Repair both change the
\* text and both the Scanner and Comma Repair report.
C17_Witness ==
    /\ fnOp = "apply_fixes"
    /\ fnRet.raised = ""
    /\ fnRet.fixed
    /\ remove_trailing_commas(fnArg) # fnArg
    /\ fnRet.content # remove_trailing_commas(fnArg)
    /\ \E i \in 1..Len(fnRet.reports) : fnRet.reports[i].kind = "Extra closing bracket"
    /\ \E i \in 1..Len(fnRet.reports) : fnRet.reports[i].kind = "Missing comma"

\* The text with character c put before position p.
InsertAt(text, p, c) ==
    SubSeq(text, 1, p - 1) \o <<c>> \o SubSeq(text, p, Len(text))

\* The only defect of the text is one unmatched "[": it does not decode, and
\* with one "]" added somewhere it does.
OnlyUnmatchedOpenBracket(text) ==
    /\ ~json_loads(text).ok
    /\ \E p \in 1..(Len(text) + 1) : json_loads(InsertAt(text, p, RBRACK)).ok

\* Bracket Repair kept every "[" and "]" of its input and added none.
SquareBracketsKept ==
    /\ count(fnRet, LBRACK) = count(fnArg, LBRACK)
    /\ count(fnRet, RBRACK) = count(fnArg, RBRACK)

\* The Scanner's findings on the input hold a missing closing bracket for
\* "[", and Bracket Repair appended no closer to the input's lines.
ReportedButNotClosed ==
    /\ LET found == detect_unbalanced_brackets_with_report(fnArg) IN
          \E i \in 1..Len(found), line \in 1..Len(fnArg) :
              found[i] = MissingClosing(LBRACK, line)
    /\ fnRet = join(splitlines(fnArg))

\* C18, as stated: Bracket Repair never adds or removes a "[" or "]", and an
\* input whose only defect is an unmatched "[" gets a missing closing bracket
\* finding for "[" from the Scanner and no closer from Bracket Repair.
C18_BracketsReportedNotClosed ==
    fnOp = "fix_unbalanced_brackets" =>
        /\ SquareBracketsKept
        /\ OnlyUnmatchedOpenBracket(fnArg) => ReportedButNotClosed

\* C18, amended: the same, for an input none of whose string literals holds
\* a bracket or a brace.
C18_BracketsOutsideStrings ==
    fnOp = "fix_unbalanced_brackets" =>
        /\ SquareBracketsKept
        /\ (OnlyUnmatchedOpenBracket(fnArg) /\ NoBracketInStrings(fnArg))
               => ReportedButNotClosed

\* C18 witness: Bracket Repair ran on an array that lacks its "]" and holds
\* an object.
C18_Witness ==
    /\ fnOp = "fix_unbalanced_brackets"
    /\ OnlyUnmatchedOpenBracket(fnArg)
    /\ NoBracketInStrings(fnArg)
    /\ count(fnArg, LBRACE) > 0
    /\ ReportedButNotClosed

\* C19, as stated: every run ends before the attempt bound, so none returns
\* "Reached maximum attempts".
C19_MaxAttemptsUnreachable ==
    pc = "Done" => result # MaxAttempts

\* Within a run at most one file has been written; a write belongs to a run
\* that returned "Fix successful", whose current text decodes, and it put the
\* re-serialization of that text at the derived path.
C20_WriteOfRun ==
    /\ Len(writes) <= 1
    /\ writes # <<>> =>
          /\ pc = "Done"
          /\ result = FixSuccessful
          /\ json_loads(content).ok
          /\ writes[1] = <<corrected_path_of(file_path), reformat_json(content)>>
          /\ corrected_path_of(file_path) \in DOMAIN files
          /\ files[corrected_path_of(file_path)] = reformat_json(content)

\* A step that changes the files is the one write of a run that returns
\* "Fix successful", and it changes the file at the derived path only.
C20_FilesChangeOnlyBySave ==
    files' # files =>
        /\ result' = FixSuccessful
        /\ writes = <<>> /\ Len(writes') = 1
        /\ files' = written(files, corrected_path_of(file_path), reformat_json(content))

\* C20: in any run at most one file write happens, only on the success path
\* after the current text has decoded; it writes the re-serialization of that
\* text to the derived path; a run that ends in any other outcome leaves all
\* files unchanged.
C20_SingleWriteOnSuccess ==
    []C20_WriteOfRun /\ [][C20_FilesChangeOnlyBySave]_vars

\* C20 witness: a later run that repaired its text and saved it.
C20_Witness ==
    /\ pc = "Done"
    /\ run >= 1
    /\ attempt > 0
    /\ result = FixSuccessful
    /\ Len(writes) = 1
    /\ writes[1][1] # file_path

====
